---- MODULE Spec2Model ----
(***************************************************************************)
(* Receipt Data Extractor (src/app.py): the cached extraction function     *)
(* process_receipt and the top-level request handling of the Streamlit     *)
(* script, as a state machine.  One Submit step is one run of the script   *)
(* with an image and a credential supplied.                                *)
(***************************************************************************)
EXTENDS Integers, Sequences, FiniteSets, TLC

VARIABLES
    clock,      \* seconds on the cache's timer
    cache,      \* st.cache_data store of process_receipt: key -> entry
    lastOk,     \* history: key -> last return of process_receipt's body
    req,        \* arguments of the last run (image, credential, expected)
    called,     \* the last run issued a call to the extraction service
    raw,        \* response text of that call (<<>> when none was received)
    result,     \* what process_receipt returned to the last run
    exc,        \* exception raised during the last run
    display,    \* elements the last run rendered, in order
    status      \* how the last run left the script

vars == <<clock, cache, lastOk, req, called, raw, result, exc, display, status>>

----------------------------------------------------------------------------
(* Bounds *)

MaxLen == 4         \* length of response texts, single-run specification
MaxItems == 2       \* items per receipt of the single-run specification
MaxAmount == 2      \* amounts are 1..MaxAmount
MaxTicks == 2       \* clock runs to MaxTicks * TickStep

(* Program constants *)

TTL == 3600
TickStep == TTL \div 2

----------------------------------------------------------------------------
(* JSON values as json.loads returns them.  Every value has the same three *)
(* fields so that values of different JSON types can be compared.          *)

Absent == [type |-> "absent", num |-> 0, str |-> ""]
Num(n) == [type |-> "number", num |-> n, str |-> ""]
Str(s) == [type |-> "string", num |-> 0, str |-> s]

IsPresent(v) == v.type # "absent"
IsNumber(v) == v.type = "number"

NoItems == [type |-> "absent", list |-> <<>>]
NotAList == [type |-> "string", list |-> <<>>]
ItemList(l) == [type |-> "list", list |-> l]

Amounts == 1..MaxAmount

(* One element of Items: the keys the script reads. *)
LineItems ==
    [Total : {Absent, Str("n/a")} \cup {Num(n) : n \in Amounts},
     ProductType : {Absent, Str("food"), Str("other")}]

SeqsUpTo(S, n) == UNION {[1..k -> S] : k \in 0..n}

(* The decoded mappings of the single-run specification. *)
Mappings ==
    [Company : {Absent, Str("ACME")},
     Date : {Absent, Str("2024-01-01")},
     Deduction : {Absent, Num(0)},
     Total : {Absent, Str("n/a")} \cup {Num(n) : n \in Amounts},
     Items : {NoItems, NotAList} \cup {ItemList(l) : l \in SeqsUpTo(LineItems, MaxItems)}]

Bread(n) == [Total |-> Num(n), ProductType |-> Str("food")]

Receipt(items, total) ==
    [Company |-> Str("ACME"), Date |-> Str("2024-01-01"), Deduction |-> Absent,
     Total |-> total, Items |-> items]

(* The decoded mappings of the caching specification: the end-to-end       *)
(* scenarios A, B and D, and a mapping without Items.                      *)
ScenarioA == Receipt(ItemList(<<Bread(2)>>), Num(2))
ScenarioB == Receipt(ItemList(<<Bread(2)>>), Num(1))
ScenarioD == Receipt(ItemList(<<Bread(2)>>), Absent)
ScenarioNoItems == Receipt(NoItems, Num(2))
Scenarios == {ScenarioA, ScenarioB, ScenarioD, ScenarioNoItems}

----------------------------------------------------------------------------
(* Response texts.  "{" and "}" are braces, "x" is any other text.  The    *)
(* members written between the braces of the object are carried beside the *)
(* text, in the response's field members.                                  *)

Tokens == {"{", "}", "x"}
Texts(n) == SeqsUpTo(Tokens, n)

Positions(t, c) == {i \in 1..Len(t) : t[i] = c}
Min(S) == CHOOSE m \in S : \A k \in S : m <= k
Max(S) == CHOOSE m \in S : \A k \in S : k <= m

(* re.search(r'\{.*\}', result_str, re.DOTALL): the leftmost "{" that has  *)
(* a "}" after it, extended to the last "}" of the text.                   *)
HasMatch(t) ==
    /\ Positions(t, "{") # {}
    /\ \E j \in Positions(t, "}") : j > Min(Positions(t, "{"))

(* Mutant: the non-greedy pattern \{.*?\}, which stops at the first "}". *)
MatchSpanLazy(t) ==
    SubSeq(t, Min(Positions(t, "{")),
           Min({j \in Positions(t, "}") : j > Min(Positions(t, "{"))}))

MatchSpan(t) == SubSeq(t, Min(Positions(t, "{")), Max(Positions(t, "}")))

(* json.loads on a text that starts with "{": it decodes when the text is  *)
(* exactly one object, the braces nest, and nothing but objects is inside. *)
RECURSIVE ScanObject(_, _, _)
ScanObject(s, i, depth) ==
    IF i > Len(s) THEN depth = 0
    ELSE IF s[i] = "x" THEN FALSE
    ELSE IF s[i] = "{" THEN (i = 1 \/ depth > 0) /\ ScanObject(s, i + 1, depth + 1)
    ELSE depth > 0 /\ ScanObject(s, i + 1, depth - 1)

Decodes(s) == Len(s) > 0 /\ ScanObject(s, 1, 0)

----------------------------------------------------------------------------
(* Python exceptions, with the line that raises them. *)

NoExc == [type |-> "none", line |-> 0]
Raise(type, line) == [type |-> type, line |-> line]

(* isinstance(e, cls) for the classes the script names. *)
IsInstance(e, cls) ==
    \/ e.type = cls
    \/ e.type = "JSONDecodeError" /\ cls = "ValueError"

NoValue == [Company |-> Absent, Date |-> Absent, Deduction |-> Absent,
            Total |-> Absent, Items |-> NoItems]

(* What the extraction service does when called. *)
AuthRejected == [kind |-> "auth", text |-> <<>>, members |-> NoValue]
ServiceFailed == [kind |-> "error", text |-> <<>>, members |-> NoValue]
Answer(t, m) == [kind |-> "text", text |-> t, members |-> m]

Behaviours(texts, mappings) ==
    {AuthRejected, ServiceFailed}
        \cup {Answer(t, m) : t \in texts, m \in mappings}

(* The body of process_receipt once the service has behaved as svc.        *)
ProcessReceipt(svc) ==
    IF svc.kind = "auth"
    THEN [exc |-> Raise("AuthenticationError", 53), value |-> NoValue, raw |-> <<>>]
    ELSE IF svc.kind = "error"
    THEN [exc |-> Raise("APIError", 53), value |-> NoValue, raw |-> <<>>]
    ELSE IF ~HasMatch(svc.text)
    THEN [exc |-> Raise("ValueError", 74), value |-> NoValue, raw |-> svc.text]
    ELSE IF ~Decodes(MatchSpan(svc.text))
    THEN [exc |-> Raise("JSONDecodeError", 76), value |-> NoValue, raw |-> svc.text]
    ELSE [exc |-> NoExc, value |-> svc.members, raw |-> svc.text]

----------------------------------------------------------------------------
(* Lines 122-154: the tables built from the returned mapping.              *)

RECURSIVE SumNumbers(_)
SumNumbers(l) ==
    IF l = <<>> THEN 0
    ELSE (IF IsNumber(Head(l).Total) THEN Head(l).Total.num ELSE 0) + SumNumbers(Tail(l))

HasColumn(l, f) == \E i \in 1..Len(l) : IsPresent(l[i][f])

(* items_df["Total"].sum(): missing cells are skipped; a column of strings *)
(* only is concatenated; strings mixed with numbers or missing cells raise.*)
ColumnSum(l) ==
    IF \A i \in 1..Len(l) : l[i].Total.type # "string"
    THEN [exc |-> NoExc, type |-> "number", num |-> SumNumbers(l)]
    ELSE IF \A i \in 1..Len(l) : l[i].Total.type = "string"
    THEN [exc |-> NoExc, type |-> "string", num |-> 0]
    ELSE [exc |-> Raise("TypeError", 123), type |-> "none", num |-> 0]

(* result_json.get(field, "Unknown") *)
GetOrUnknown(v) == IF IsPresent(v) THEN v ELSE Str("Unknown")

(* Mutant: a discount clamped at zero. *)
DiscountClamped(sum, total) == IF sum - total < 0 THEN 0 ELSE sum - total

(* total_without_discount - result_json["Total"] *)
Discount(sum, total) == sum - total

SummaryRow(value, sum) ==
    [Company |-> GetOrUnknown(value.Company),
     Date |-> GetOrUnknown(value.Date),
     Discount |-> Discount(sum, value.Total.num),
     Total |-> GetOrUnknown(value.Total)]

(* items_df.groupby("ProductType")["Total"].sum(): one row per product     *)
(* type present; items without a product type are dropped.                 *)
ProductTypes(l) == {l[i].ProductType : i \in {j \in 1..Len(l) : IsPresent(l[j].ProductType)}}

RECURSIVE SumOfType(_, _)
SumOfType(l, pt) ==
    IF l = <<>> THEN 0
    ELSE (IF Head(l).ProductType = pt /\ IsNumber(Head(l).Total)
          THEN Head(l).Total.num ELSE 0) + SumOfType(Tail(l), pt)

Grouped(l) == {[ProductType |-> pt, Total |-> SumOfType(l, pt)] : pt \in ProductTypes(l)}

Element(kind) == [kind |-> kind]
(* st.error(msg): detail is the response text the call includes.          *)
ErrorBox(msg) == [kind |-> "error", msg |-> msg, detail |-> <<>>]
SummaryTable(row) == [kind |-> "summary", row |-> row]
ItemsTable(l) == [kind |-> "items", rows |-> l]
CategoryTable(g) == [kind |-> "category", rows |-> g]

(* Lines 140-154: items table, category table and chart or the warning,    *)
(* items download.                                                         *)
ItemsSection(l) ==
    <<ItemsTable(l)>>
        \o (IF HasColumn(l, "ProductType")
            THEN <<CategoryTable(Grouped(l)), Element("bar_chart")>>
            ELSE <<Element("warning")>>)
        \o <<Element("download_items")>>

(* Lines 122-154 on the mapping process_receipt returned: the exception    *)
(* raised, if any, and the elements rendered before it.                    *)
Render(value) ==
    IF value.Items.type = "absent"
    THEN [exc |-> Raise("KeyError", 122), shown |-> <<>>]
    ELSE IF value.Items.type # "list"
    THEN [exc |-> Raise("ValueError", 122), shown |-> <<>>]
    ELSE IF ~HasColumn(value.Items.list, "Total")
    THEN [exc |-> Raise("KeyError", 123), shown |-> <<>>]
    ELSE IF ColumnSum(value.Items.list).exc # NoExc
    THEN [exc |-> ColumnSum(value.Items.list).exc, shown |-> <<>>]
    ELSE IF ~IsPresent(value.Total)
    THEN [exc |-> Raise("KeyError", 127), shown |-> <<>>]
    ELSE IF ColumnSum(value.Items.list).type # "number" \/ ~IsNumber(value.Total)
    THEN [exc |-> Raise("TypeError", 127), shown |-> <<>>]
    ELSE [exc |-> NoExc,
          shown |-> <<SummaryTable(SummaryRow(value, ColumnSum(value.Items.list).num)),
                      Element("download_summary")>>
                    \o ItemsSection(value.Items.list)]

(* Lines 156-160: the except clauses of the top-level try.                 *)
CaughtAsAuth(e) == IsInstance(e, "AuthenticationError")

(* Mutant: an except clause that names json.JSONDecodeError and TypeError  *)
(* but not ValueError.                                                     *)
CaughtAsFailureNoValueError(e) == e.type \in {"TypeError", "JSONDecodeError"}

CaughtAsFailure(e) ==
    \/ IsInstance(e, "ValueError")
    \/ IsInstance(e, "TypeError")
    \/ IsInstance(e, "JSONDecodeError")

InvalidKeyMsg == "Invalid API key. Please check your Groq key and try again."
FailedMsg == "Receipt processing failed. Please upload a clearer image."

OnException(e) ==
    IF e = NoExc THEN [shown |-> <<>>, status |-> "done"]
    ELSE IF CaughtAsAuth(e) THEN [shown |-> <<ErrorBox(InvalidKeyMsg)>>, status |-> "stopped"]
    ELSE IF CaughtAsFailure(e) THEN [shown |-> <<ErrorBox(FailedMsg)>>, status |-> "done"]
    ELSE [shown |-> <<>>, status |-> "unhandled"]   \* no clause matches: e leaves the script

----------------------------------------------------------------------------
(* st.cache_data(ttl=3600) around process_receipt.                         *)

Images == {"imgA", "imgB"}
ApiKeys == {"gsk_a"}
ExpectedCounts == {0, 1}

(* The submissions of the caching specification: they differ in the image  *)
(* or in the expected item count.                                          *)
Requests == (Images \X ApiKeys \X ExpectedCounts) \ {<<"imgB", "gsk_a", 1>>}

Entry(value, now) == [at |-> now, value |-> value]

(* The arguments the entry is stored under. *)
CacheKey(image, apiKey, expected) == <<image, apiKey, expected>>

(* Mutant: entries that live half the window. *)
CacheHitHalfWindow(c, k, now) == k \in DOMAIN c /\ now < c[k].at + (TTL \div 2)

(* An entry is served until ttl seconds after it was written. *)
CacheHit(c, k, now) == k \in DOMAIN c /\ now < c[k].at + TTL

Store(c, k, e) == [x \in DOMAIN c \cup {k} |-> IF x = k THEN e ELSE c[x]]

(* Mutant: a cache filled only after the summary could be built. *)
CacheWriteValidated(c, k, outcome, now) ==
    IF outcome.exc = NoExc /\ Render(outcome.value).exc = NoExc
    THEN Store(c, k, Entry(outcome.value, now))
    ELSE c

(* Only a return value is stored; an exception leaves the cache as it was. *)
CacheWrite(c, k, outcome, now) ==
    IF outcome.exc = NoExc THEN Store(c, k, Entry(outcome.value, now)) ELSE c

(* The cached call of line 120: a hit returns the stored value; a miss     *)
(* runs the body, whose outcome is returned or raised.                     *)
CacheMiss(c, k, now, outcome) ==
    [called |-> TRUE, cache |-> CacheWrite(c, k, outcome, now), outcome |-> outcome]

CachedProcessReceipt(c, k, now, svc) ==
    IF CacheHit(c, k, now)
    THEN [called |-> FALSE, cache |-> c,
          outcome |-> [exc |-> NoExc, value |-> c[k].value, raw |-> <<>>]]
    ELSE CacheMiss(c, k, now, ProcessReceipt(svc))

----------------------------------------------------------------------------
(* The state machine *)

Init ==
    /\ clock = 0
    /\ cache = <<>>
    /\ lastOk = <<>>
    /\ req = <<"none", "none", 0>>
    /\ called = FALSE
    /\ raw = <<>>
    /\ result = NoValue
    /\ exc = NoExc
    /\ display = <<>>
    /\ status = "idle"

(* Lines 115-160: one run of the script with an image and a credential.    *)
Submit(image, apiKey, expected, svc) ==
    \E run \in {CachedProcessReceipt(cache, CacheKey(image, apiKey, expected), clock, svc)} :
    \E rendered \in {IF run.outcome.exc = NoExc
                      THEN Render(run.outcome.value)
                      ELSE [exc |-> run.outcome.exc, shown |-> <<>>]} :
    \E handled \in {OnException(rendered.exc)} :
        /\ req' = <<image, apiKey, expected>>
        /\ called' = run.called
        /\ cache' = run.cache
        /\ lastOk' = IF run.called /\ run.outcome.exc = NoExc
                     THEN Store(lastOk, <<image, apiKey, expected>>,
                                Entry(run.outcome.value, clock))
                     ELSE lastOk
        /\ raw' = run.outcome.raw
        /\ result' = run.outcome.value
        /\ exc' = rendered.exc
        /\ display' = <<Element("image")>> \o rendered.shown \o handled.shown
        /\ status' = handled.status
        /\ UNCHANGED clock

(* Time passes between runs. *)
Tick ==
    /\ clock + TickStep <= MaxTicks * TickStep
    /\ clock' = clock + TickStep
    /\ UNCHANGED <<cache, lastOk, req, called, raw, result, exc, display, status>>

(* The responses of the caching specification: one object after prose,     *)
(* with every scenario's members; prose only; two objects.                 *)
UndecodableTexts == {<<"x">>, <<"{", "}", "{", "}">>}
CachedBehaviours ==
    Behaviours({<<"x", "{", "}">>}, Scenarios) \cup Behaviours(UndecodableTexts, {ScenarioA})

SubmitAny ==
    \E r \in Requests, svc \in CachedBehaviours : Submit(r[1], r[2], r[3], svc)

Next == SubmitAny \/ Tick

Spec == Init /\ [][Next]_vars

(* A single first run, over longer texts and over every mapping.           *)
PipeBehaviours ==
    Behaviours(Texts(MaxLen), Scenarios)
        \cup {Answer(<<"x", "{", "}">>, m) : m \in Mappings}

RunOnce ==
    /\ status = "idle"
    /\ \E svc \in PipeBehaviours : Submit("imgA", "gsk_a", 0, svc)

PipeSpec == Init /\ [][RunOnce]_vars

----------------------------------------------------------------------------
(* Vocabulary of the claims *)

Ran == status # "idle"

(* process_receipt returned a mapping to the last run. *)
Returned == Ran /\ exc.line \notin {53, 74, 76}

(* The service answered the last run with a text. *)
TextReceived == Ran /\ called /\ exc.line # 53

AuthenticationFailure == Ran /\ exc.type = "AuthenticationError"
ServiceError == Ran /\ exc.type = "APIError"
NoJsonFound == Ran /\ exc = Raise("ValueError", 74)
MalformedJson == Ran /\ exc.type = "JSONDecodeError"
LacksTotal == Returned /\ ~IsPresent(result.Total)
LacksItems == Returned /\ result.Items.type = "absent"

Shown(kind) == \E i \in 1..Len(display) : display[i].kind = kind
ErrorShown == Shown("error")
FailureMessageShown ==
    \E i \in 1..Len(display) : display[i].kind = "error" /\ display[i].msg = FailedMsg
NoTableShown == ~Shown("summary") /\ ~Shown("items") /\ ~Shown("category")
SummaryShown == Len(display) >= 2 /\ display[2].kind = "summary"

----------------------------------------------------------------------------
(* C1: every fatal failure kind (rejected credential, other service       *)
(* failure, no JSON span, undecodable span, decoded mapping lacking Total  *)
(* or Items) ends with a user-facing error message shown, and none leaves  *)
(* the top-level handler as an unhandled exception.                        *)
C1_EveryFatalFailureIsHandled ==
    (AuthenticationFailure \/ ServiceError \/ NoJsonFound \/ MalformedJson
        \/ LacksTotal \/ LacksItems)
        => (ErrorShown /\ status # "unhandled")

(* C2: a decoded mapping without Total fails as a handled, user-facing     *)
(* failure asking for a clearer image, whatever other fields are present,  *)
(* and no summary table is rendered.                                       *)
C2_MissingTotalIsHandled ==
    LacksTotal => (FailureMessageShown /\ status = "done" /\ ~Shown("summary"))

(* C3: a submission whose (image, credential, expected count) had a        *)
(* successful extraction less than 3600 s ago returns the record of that   *)
(* extraction and issues no service call, so that extraction stays the     *)
(* only call for the key in its window.                                    *)
C3_CacheWindow ==
    [][\A k \in DOMAIN lastOk :
          (clock' = clock /\ req' = k /\ clock < lastOk[k].at + TTL)
              => (~called' /\ result' = lastOk[k].value /\ lastOk' = lastOk)]_vars

C3_Witness ==
    /\ ~called
    /\ req \in DOMAIN lastOk
    /\ lastOk[req].at < clock
    /\ clock < lastOk[req].at + TTL
    /\ SummaryShown

(* C4: with a numeric record Total and numeric item Totals, the Discount   *)
(* of the summary is the sum of the items' Totals minus the record's       *)
(* Total, unclamped: negative when the record Total exceeds the sum, 0     *)
(* when a non-empty list sums to the record Total.                         *)
RECURSIVE TotalUpTo(_, _)
TotalUpTo(l, n) ==
    IF n = 0 THEN 0
    ELSE TotalUpTo(l, n - 1) + (IF IsNumber(l[n].Total) THEN l[n].Total.num ELSE 0)

AllNumeric ==
    /\ Returned
    /\ result.Items.type = "list"
    /\ result.Items.list # <<>>
    /\ \A i \in 1..Len(result.Items.list) : IsNumber(result.Items.list[i].Total)
    /\ IsNumber(result.Total)

ItemsTotal == TotalUpTo(result.Items.list, Len(result.Items.list))

C4_DiscountIsSumMinusTotal ==
    /\ AllNumeric => SummaryShown
    /\ SummaryShown =>
          /\ display[2].row.Discount = ItemsTotal - result.Total.num
          /\ result.Total.num > ItemsTotal => display[2].row.Discount < 0
          /\ result.Total.num = ItemsTotal => display[2].row.Discount = 0

C4_Witness ==
    /\ AllNumeric
    /\ SummaryShown
    /\ result.Total.num > ItemsTotal
    /\ display[2].row.Discount < 0

(* C5: a response text without "{" ends in NoJsonFound: the failure        *)
(* message is shown and no summary, items or category table is rendered.   *)
C5_NoBraceIsNoJsonFound ==
    (TextReceived /\ Positions(raw, "{") = {})
        => (NoJsonFound /\ FailureMessageShown /\ status = "done" /\ NoTableShown)

C5_Witness ==
    /\ TextReceived
    /\ raw # <<>>
    /\ Positions(raw, "{") = {}
    /\ Positions(raw, "}") # {}
    /\ NoJsonFound

(* C6: a failure of category aggregation, whatever its cause (no           *)
(* ProductType on the items, a non-numeric Total on some item), is not     *)
(* fatal: summary and items tables are still produced with their           *)
(* downloads, the category table and chart are omitted, and a warning is   *)
(* shown instead of the request-level error.                               *)
AggregationFails ==
    /\ Returned
    /\ result.Items.type = "list"
    /\ IsNumber(result.Total)
    /\ \E i \in 1..Len(result.Items.list) : IsNumber(result.Items.list[i].Total)
    /\ \/ ~HasColumn(result.Items.list, "ProductType")
       \/ \E i \in 1..Len(result.Items.list) : result.Items.list[i].Total.type = "string"

C6_AggregationFailureIsNotFatal ==
    AggregationFails =>
        /\ status = "done"
        /\ Shown("summary") /\ Shown("download_summary")
        /\ Shown("items") /\ Shown("download_items")
        /\ Shown("warning")
        /\ ~Shown("category") /\ ~Shown("bar_chart")
        /\ ~ErrorShown

(* C7: when a request fails with NoJsonFound or MalformedJson, the         *)
(* response text that failed to parse is shown to the user.                *)
RawShown == \E i \in 1..Len(display) : display[i].kind = "error" /\ display[i].detail = raw

C7_UnparsedTextIsShown == (NoJsonFound \/ MalformedJson) => RawShown

(* C8: a mapping without Company (or Date) that has Total and a list of    *)
(* Items succeeds with "Unknown" as the summary's Company (or Date); a     *)
(* present Company or Date is passed through unchanged.  Stated for        *)
(* mappings whose Total and item Totals are all numbers.                   *)
WellTyped ==
    /\ Returned
    /\ result.Items.type = "list"
    /\ \A i \in 1..Len(result.Items.list) : IsNumber(result.Items.list[i].Total)
    /\ IsNumber(result.Total)

C8_MissingCompanyOrDateDefaults ==
    WellTyped =>
        /\ status = "done"
        /\ SummaryShown
        /\ display[2].row.Company =
              (IF IsPresent(result.Company) THEN result.Company ELSE Str("Unknown"))
        /\ display[2].row.Date =
              (IF IsPresent(result.Date) THEN result.Date ELSE Str("Unknown"))

(* C9: the locator takes the span from the first "{" to the last "}" of    *)
(* the whole text and decodes that span once: without such a span the      *)
(* outcome is NoJsonFound; with a span that does not decode (two separate  *)
(* objects, a brace in the surrounding prose) it is MalformedJson, which   *)
(* ends the request with the failure message.                              *)
FirstOpen == Min(Positions(raw, "{"))
LastClose == Max(Positions(raw, "}"))
HasSpan == Positions(raw, "{") # {} /\ Positions(raw, "}") # {} /\ FirstOpen < LastClose
GreedySpan == [i \in 1..(LastClose - FirstOpen + 1) |-> raw[FirstOpen + i - 1]]

C9_GreedySpanDecodedOnce ==
    TextReceived =>
        /\ NoJsonFound <=> ~HasSpan
        /\ MalformedJson <=> (HasSpan /\ ~Decodes(GreedySpan))
        /\ Returned <=> (HasSpan /\ Decodes(GreedySpan))
        /\ raw = <<"{", "}", "{", "}">> => MalformedJson
        /\ raw = <<"{", "x", "{", "}">> => MalformedJson
        /\ MalformedJson => (FailureMessageShown /\ status = "done" /\ NoTableShown)

C9_Witness ==
    /\ TextReceived
    /\ raw = <<"{", "}", "{", "}">>
    /\ MalformedJson

(* C10: a run that fails inside process_receipt (rejected credential,      *)
(* service failure, NoJsonFound, MalformedJson) writes no cache entry and  *)
(* an identical resubmission calls the service again; a run whose decoded  *)
(* mapping lacks Total or Items is cached, and an identical resubmission   *)
(* within the window repeats the failure without a service call.           *)
FailedInside == Ran /\ exc.line \in {53, 74, 76}

C10_OnlyInnerFailuresStayUncached ==
    [][/\ (FailedInside' /\ clock' = clock) => cache' = cache
       /\ (FailedInside /\ clock' = clock /\ req' = req) => called'
       /\ ((LacksTotal \/ LacksItems) /\ clock' = clock /\ req' = req
              /\ req \in DOMAIN lastOk /\ clock < lastOk[req].at + TTL)
            => (~called' /\ exc' = exc /\ status' = status /\ display' = display)]_vars

C10_Witness ==
    /\ ~called
    /\ exc.type = "KeyError"
    /\ LacksTotal
    /\ status = "unhandled"
    /\ lastOk[req].at < clock

====
